---- MODULE Spec2Model ----
(***************************************************************************)
(* Model of the sandboxed challenge evaluator (SandboxedEvaluator) and of  *)
(* the token pipeline BGUtils.getPot that drives it.                       *)
(*                                                                         *)
(* The host is single threaded: every action below is one synchronous run  *)
(* of host code (an API call, a timer callback, a message or load event    *)
(* handler, or the continuation of an await).  The sandbox frame, the      *)
(* timers and the network are the environment.                             *)
(***************************************************************************)
EXTENDS Integers, Sequences, FiniteSets, TLC

(***************************************************************************)
(* Bounds of the model                                                     *)
(***************************************************************************)
MaxOps == 3     \* calls a direct client makes on its evaluator
MaxExtra == 1   \* unsolicited events: messages nobody asked for, repeated loads
MaxLen == 3     \* length of the byte sequences and strings given to the codecs

(***************************************************************************)
(* Program constants                                                       *)
(***************************************************************************)
PotTimeout == 5000    \* evaluator.setTimeout(5000)
PotFloor == 80        \* fn2: if (o.length > 80) return o

\* the evaluate calls: in getPot 1 is the script, 2 is fn1, 3 is fn2
Calls == {1, 2, 3}
Users == {1, 2}
Events == {"result", "error", "close", "ready"}
ResultOf == <<"r1", "r2", "r3">>   \* what the sandbox computes for request c
ErrorOf == <<"e1", "e2", "e3">>    \* the error it raises for request c instead
NoArg == "undefined"
ClosedError == "SandboxedEvaluator closed"
CurrentOrigin == "host"
RunnerOrigins == {"host", "sandbox"}
Durations == {0, PotTimeout}      \* 0 stands for null and for zero (both falsy)

\* the three handlers an evaluate call subscribes, and a client's own listeners
Handler(kind, c) == [kind |-> kind, id |-> c]
UserListener(u) == [kind |-> "user", id |-> u]
\* the client's listener 2 unsubscribes itself when invoked (a once-listener)
UserOnce(u) == u = 2

VARIABLES
  ev,          \* the SandboxedEvaluator object, its promises and its timers
  mailbox,     \* message events queued for the host window
  client,      \* who drives the evaluator: "direct" or "getPot"
  debug,       \* getPot's debug argument
  frameHangs,  \* the sandbox document never finishes loading
  run,         \* the getPot invocation: position, locals, outcome
  budget,      \* how many client calls, extra messages, loads and timer callbacks ran
  codec        \* a call of the base64 helpers: its input, its position, its values

vars == <<ev, mailbox, client, debug, frameHangs, run, budget, codec>>

(***************************************************************************)
(* SandboxedEvaluator: on / off / emit                                     *)
(***************************************************************************)
\* Array.prototype.indexOf: the first position, 0 when absent
IndexOf(seq, x) ==
  IF \E i \in 1..Len(seq) : seq[i] = x
  THEN CHOOSE i \in 1..Len(seq) : seq[i] = x /\ \A j \in 1..(i - 1) : seq[j] # x
  ELSE 0

\* Array.prototype.splice(index, 1)
Splice(seq, i) == SubSeq(seq, 1, i - 1) \o SubSeq(seq, i + 1, Len(seq))

on(e, event, listener) ==
  [e EXCEPT !.listeners[event] = Append(@, listener)]

off(e, event, listener) ==
  LET index == IndexOf(e.listeners[event], listener)
  IN IF index = 0 THEN e
     ELSE [e EXCEPT !.listeners[event] = Splice(@, index)]

\* cleanup() of an evaluate call
cleanup(e, c) ==
  off(off(off(e, "result", Handler("resultHandler", c)),
               "error", Handler("errorHandler", c)),
               "close", Handler("closeHandler", c))

\* resolve()/reject() of the promise of call c: a settled promise stays as it is
Settle(e, c, st, out) ==
  IF e.calls[c].st = "registered"
  THEN [e EXCEPT !.calls[c] = [st |-> st, out |-> out]]
  ELSE e

\* what one listener does when emit invokes it
Invoke(e, l, event, arg) ==
  CASE l.kind = "resultHandler" -> Settle(cleanup(e, l.id), l.id, "resolved", arg)
    [] l.kind = "errorHandler"  -> Settle(cleanup(e, l.id), l.id, "rejected", arg)
    [] l.kind = "closeHandler"  -> Settle(cleanup(e, l.id), l.id, "rejected", ClosedError)
    [] OTHER ->
         LET e1 == [e EXCEPT !.invoked[l.id] = @ + 1]
         IN IF UserOnce(l.id) THEN off(e1, event, l) ELSE e1

\* the for..of loop of emit: it walks the live array by position, so an
\* element spliced out by a listener shifts the ones behind it
RECURSIVE EmitFrom(_, _, _, _)
EmitFrom(e, event, i, arg) ==
  IF i > Len(e.listeners[event]) THEN e
  ELSE EmitFrom(Invoke(e, e.listeners[event][i], event, arg), event, i + 1, arg)

\* emits counts the emit calls of the events close and ready
emit(e, event, arg) ==
  EmitFrom(IF event \in {"close", "ready"} THEN [e EXCEPT !.emits[event] = @ + 1] ELSE e,
           event, 1, arg)

(***************************************************************************)
(* SandboxedEvaluator: constructor, setTimeout, listener, close, evaluate  *)
(***************************************************************************)
\* the object before its constructor ran
NoEvaluator ==
  [runnerFrame |-> "none", windowListener |-> FALSE, ready |-> FALSE,
   timeout |-> 0, timers |-> {}, nextTimer |-> 1, lastDuration |-> 0,
   listeners |-> [x \in Events |-> <<>>],
   calls |-> [c \in Calls |-> [st |-> "idle", out |-> "none"]],
   invoked |-> [u \in Users |-> 0],
   emits |-> [x \in {"close", "ready"} |-> 0],
   inbox |-> <<>>, posted |-> <<>>, tokenLength |-> 0, issuedClosed |-> {}]

\* constructor past the origin check: frame attached, listener registered
Construct(e) ==
  [e EXCEPT !.runnerFrame = "attached", !.windowListener = TRUE, !.timeout = 0]

ConstructorThrows(runnerOrigin) == CurrentOrigin = runnerOrigin

\* a constructor that compares the origins after it has set up the frame
ConstructorLateCheck(e, runnerOrigin) ==
  [threw |-> ConstructorThrows(runnerOrigin), ev |-> Construct(e)]

\* new SandboxedEvaluator(RunnerFrameLocation): the origin check comes first
\* and throws before the frame, the message listener or anything else exists
Constructor(e, runnerOrigin) ==
  IF ConstructorThrows(runnerOrigin)
  THEN [threw |-> TRUE, ev |-> e]
  ELSE [threw |-> FALSE, ev |-> Construct(e)]

\* setTimeout without its clearTimeout of the timer armed before
setTimeoutNoClear(e, timeoutDuration) ==
  LET e1 == [e EXCEPT !.lastDuration = timeoutDuration]
  IN IF timeoutDuration = 0 THEN e1
     ELSE [e1 EXCEPT !.timeout = e1.nextTimer,
                     !.timers = @ \cup {e1.nextTimer},
                     !.nextTimer = @ + 1]

\* timers holds the handles window.setTimeout returned (positive integers,
\* never reused) whose callback is still to run; this.timeout keeps the last
\* handle, also after it was cleared or has fired; lastDuration records the
\* argument of the last call
setTimeout(e, timeoutDuration) ==
  LET e0 == IF e.timeout # 0 THEN [e EXCEPT !.timers = @ \ {e.timeout}] ELSE e
      e1 == [e0 EXCEPT !.lastDuration = timeoutDuration]
  IN IF timeoutDuration = 0 THEN e1
     ELSE [e1 EXCEPT !.timeout = e1.nextTimer,
                     !.timers = @ \cup {e1.nextTimer},
                     !.nextTimer = @ + 1]

\* this.runnerFrame?.contentWindow: null once the frame left the document
ContentWindow(e) == IF e.runnerFrame = "attached" THEN "sandbox" ELSE "null"

\* listener without the comparison of event.source
listenerAnySource(e, m) ==
  IF m.type = "sandboxResult" THEN emit(e, "result", m.value)
  ELSE IF m.type = "sandboxError" THEN emit(e, "error", m.value)
  ELSE e

\* listener without its sandboxError branch
listenerNoError(e, m) ==
  IF m.source # ContentWindow(e) THEN e
  ELSE IF m.type = "sandboxResult" THEN emit(e, "result", m.value)
  ELSE e

listener(e, m) ==
  IF m.source # ContentWindow(e) THEN e
  ELSE IF m.type = "sandboxResult" THEN emit(e, "result", m.value)
  ELSE IF m.type = "sandboxError" THEN emit(e, "error", m.value)
  ELSE e

\* close without its emit('close')
closeSilent(e) ==
  IF e.runnerFrame = "none" THEN e
  ELSE [e EXCEPT !.runnerFrame = "removed",
                 !.windowListener = FALSE,
                 !.timers = IF e.timeout # 0 THEN @ \ {e.timeout} ELSE @]

\* close(): the field runnerFrame is assigned in the constructor and never
\* reset, so the early return is not taken on a constructed evaluator
close(e) ==
  IF e.runnerFrame = "none" THEN e
  ELSE LET e1 == [e EXCEPT !.runnerFrame = "removed",
                           !.windowListener = FALSE,
                           !.timers = IF e.timeout # 0 THEN @ \ {e.timeout} ELSE @]
       IN emit(e1, "close", NoArg)

Closed(e) == e.runnerFrame = "removed"

\* evaluate() up to its await of readyPromise; issuedClosed records the calls
\* made on an evaluator that close() had already run on
evaluateCall(e, c) ==
  [e EXCEPT !.calls[c] = [st |-> "waiting", out |-> "none"],
            !.issuedClosed = IF Closed(e) THEN @ \cup {c} ELSE @]

\* evaluate() after the await: post the request, subscribe the three handlers
evaluateResume(e, c) ==
  LET e1 == IF e.runnerFrame = "attached"
            THEN [e EXCEPT !.inbox = Append(@, c), !.posted = Append(@, c)]
            ELSE e
      e2 == [e1 EXCEPT !.calls[c] = [st |-> "registered", out |-> "none"]]
  IN on(on(on(e2, "result", Handler("resultHandler", c)),
                  "error", Handler("errorHandler", c)),
                  "close", Handler("closeHandler", c))

(***************************************************************************)
(* BGUtils: base64ToU8, u8ToBase64, b64ToBuf, stringToB64                  *)
(*                                                                         *)
(* A byte array is a sequence of numbers 0..255, a base64 text a sequence  *)
(* of one-character strings, a string a sequence of code points.           *)
(***************************************************************************)
Base64Alphabet ==
  <<"A", "B", "C", "D", "E", "F", "G", "H", "I", "J", "K", "L", "M",
    "N", "O", "P", "Q", "R", "S", "T", "U", "V", "W", "X", "Y", "Z",
    "a", "b", "c", "d", "e", "f", "g", "h", "i", "j", "k", "l", "m",
    "n", "o", "p", "q", "r", "s", "t", "u", "v", "w", "x", "y", "z",
    "0", "1", "2", "3", "4", "5", "6", "7", "8", "9", "+", "/">>

\* the character of a sextet and the sextet of a character
SextetChar(n) == Base64Alphabet[n + 1]
SextetOf(ch) == IndexOf(Base64Alphabet, ch) - 1

\* btoa(String.fromCharCode(...u8)): three bytes make four characters, a
\* rest of one or two bytes is padded with "="
RECURSIVE btoa(_)
btoa(u8) ==
  IF Len(u8) = 0 THEN <<>>
  ELSE IF Len(u8) = 1 THEN
    LET n == u8[1] * 65536
    IN <<SextetChar(n \div 262144), SextetChar((n \div 4096) % 64), "=", "=">>
  ELSE IF Len(u8) = 2 THEN
    LET n == (u8[1] * 65536) + (u8[2] * 256)
    IN <<SextetChar(n \div 262144), SextetChar((n \div 4096) % 64),
         SextetChar((n \div 64) % 64), "=">>
  ELSE
    LET n == (u8[1] * 65536) + (u8[2] * 256) + u8[3]
    IN <<SextetChar(n \div 262144), SextetChar((n \div 4096) % 64),
         SextetChar((n \div 64) % 64), SextetChar(n % 64)>>
       \o btoa(SubSeq(u8, 4, Len(u8)))

\* atob drops one or two "=" at the end of a text of 4k characters
StripPadding(t) ==
  IF Len(t) > 0 /\ Len(t) % 4 = 0 /\ t[Len(t)] = "="
  THEN IF t[Len(t) - 1] = "=" THEN SubSeq(t, 1, Len(t) - 2)
       ELSE SubSeq(t, 1, Len(t) - 1)
  ELSE t

\* four characters make three bytes; the bits left over of a rest are dropped
RECURSIVE DecodeSextets(_)
DecodeSextets(t) ==
  IF Len(t) = 0 THEN <<>>
  ELSE IF Len(t) = 2 THEN
    LET n == (SextetOf(t[1]) * 262144) + (SextetOf(t[2]) * 4096)
    IN <<n \div 65536>>
  ELSE IF Len(t) = 3 THEN
    LET n == (SextetOf(t[1]) * 262144) + (SextetOf(t[2]) * 4096)
               + (SextetOf(t[3]) * 64)
    IN <<n \div 65536, (n \div 256) % 256>>
  ELSE
    LET n == (SextetOf(t[1]) * 262144) + (SextetOf(t[2]) * 4096)
               + (SextetOf(t[3]) * 64) + SextetOf(t[4])
    IN <<n \div 65536, (n \div 256) % 256, n % 256>>
       \o DecodeSextets(SubSeq(t, 5, Len(t)))

\* atob: throws on a character outside the alphabet and on a rest of one
atob(t) ==
  LET data == StripPadding(t)
  IN IF Len(data) % 4 = 1 \/ \E i \in 1..Len(data) : SextetOf(data[i]) < 0
     THEN [threw |-> TRUE, value |-> <<>>]
     ELSE [threw |-> FALSE, value |-> DecodeSextets(data)]

\* base64urlToBase64Map
Base64urlToBase64(ch) ==
  CASE ch = "-" -> "+" [] ch = "_" -> "/" [] ch = "." -> "=" [] OTHER -> ch

\* base64ToU8 without the translation of the URL-safe characters
base64ToU8NoMap(base64) == atob(base64)

base64ToU8(base64) ==
  LET base64Mod == IF \E i \in 1..Len(base64) : base64[i] \in {"-", "_", "."}
                   THEN [i \in 1..Len(base64) |-> Base64urlToBase64(base64[i])]
                   ELSE base64
  IN atob(base64Mod)

u8ToBase64(u8, base64url) ==
  LET result == btoa(u8)
  IN IF base64url
     THEN [i \in 1..Len(result) |->
             CASE result[i] = "+" -> "-" [] result[i] = "/" -> "_" [] OTHER -> result[i]]
     ELSE result

\* UTF-8 of one code point
Utf8Of(cp) ==
  IF cp < 128 THEN <<cp>>
  ELSE IF cp < 2048 THEN <<192 + (cp \div 64), 128 + (cp % 64)>>
  ELSE IF cp < 65536 THEN
    <<224 + (cp \div 4096), 128 + ((cp \div 64) % 64), 128 + (cp % 64)>>
  ELSE <<240 + (cp \div 262144), 128 + ((cp \div 4096) % 64),
         128 + ((cp \div 64) % 64), 128 + (cp % 64)>>

\* new TextEncoder().encode(str), str a well-formed string
RECURSIVE TextEncode(_)
TextEncode(str) ==
  IF str = <<>> THEN <<>> ELSE Utf8Of(Head(str)) \o TextEncode(Tail(str))

ReplacementCharacter == <<65533>>
ByteOrderMark == <<65279>>

\* the UTF-8 decoder: a byte that starts no well-formed sequence becomes U+FFFD
RECURSIVE Utf8Decode(_)
Utf8Decode(b) ==
  IF b = <<>> THEN <<>>
  ELSE
    LET Continues(k) == Len(b) >= k /\ \A i \in 2..k : b[i] \div 64 = 2
        cp2 == ((b[1] % 32) * 64) + (b[2] % 64)
        cp3 == ((b[1] % 16) * 4096) + ((b[2] % 64) * 64) + (b[3] % 64)
        cp4 == ((b[1] % 8) * 262144) + ((b[2] % 64) * 4096) + ((b[3] % 64) * 64)
                 + (b[4] % 64)
    IN IF b[1] < 128 THEN <<b[1]>> \o Utf8Decode(Tail(b))
       ELSE IF b[1] \div 32 = 6 /\ Continues(2) /\ cp2 >= 128
         THEN <<cp2>> \o Utf8Decode(SubSeq(b, 3, Len(b)))
       ELSE IF b[1] \div 16 = 14 /\ Continues(3) /\ cp3 >= 2048
               /\ ~(cp3 >= 55296 /\ cp3 <= 57343)
         THEN <<cp3>> \o Utf8Decode(SubSeq(b, 4, Len(b)))
       ELSE IF b[1] \div 8 = 30 /\ Continues(4) /\ cp4 >= 65536 /\ cp4 <= 1114111
         THEN <<cp4>> \o Utf8Decode(SubSeq(b, 5, Len(b)))
       ELSE ReplacementCharacter \o Utf8Decode(Tail(b))

\* new TextDecoder().decode(buffer): ignoreBOM is false by default, so a
\* byte order mark at the start of the input is not part of the output
TextDecode(buffer) ==
  LET str == Utf8Decode(buffer)
  IN IF Len(str) > 0 /\ <<str[1]>> = ByteOrderMark THEN Tail(str) ELSE str

\* Uint8Array.prototype.map: the result is a Uint8Array again, every element
\* stored modulo 256
MapPlus97(buffer) == [i \in 1..Len(buffer) |-> (buffer[i] + 97) % 256]
MapMinus97(buffer) == [i \in 1..Len(buffer) |-> (buffer[i] - 97 + 256) % 256]

b64ToBuf(b64) ==
  LET buffer == base64ToU8(b64)
  IN IF buffer.threw THEN buffer
     ELSE IF Len(buffer.value) = 0 THEN [threw |-> FALSE, value |-> <<>>]
     ELSE [threw |-> FALSE, value |-> TextDecode(MapPlus97(buffer.value))]

stringToB64(str) == u8ToBase64(MapMinus97(TextEncode(str)), FALSE)

\* the inputs: byte sequences that produce "+", "/" and both paddings, every
\* single byte, and strings of 1-, 2-, 3- and 4-byte characters
RECURSIVE SeqsUpTo(_, _)
SeqsUpTo(S, n) ==
  IF n = 0 THEN {<<>>}
  ELSE LET shorter == SeqsUpTo(S, n - 1)
       IN shorter \cup {Append(q, x) : q \in shorter, x \in S}

ByteValues == {0, 97, 251, 255}
ByteArrays == SeqsUpTo(ByteValues, MaxLen) \cup {<<b>> : b \in 0..255}
CodePoints == {48, 97, 233, 8364, 65279, 128512}
Strings == SeqsUpTo(CodePoints, MaxLen)

NoValue == [threw |-> FALSE, value |-> <<>>]
NoCodec == [fn |-> "none", pc |-> "done", u8 |-> <<>>, base64url |-> FALSE,
            str |-> <<>>, text |-> <<>>, out |-> NoValue]
CodecInputs ==
  [fn : {"u8ToBase64"}, pc : {"start"}, u8 : ByteArrays, base64url : BOOLEAN,
   str : {<<>>}, text : {<<>>}, out : {NoValue}]
  \cup [fn : {"stringToB64"}, pc : {"start"}, u8 : {<<>>}, base64url : {FALSE},
        str : Strings, text : {<<>>}, out : {NoValue}]

(***************************************************************************)
(* Scheduling: the continuation of an await whose promise is settled runs  *)
(* as a microtask, before any timer, message or load event is dispatched.  *)
(***************************************************************************)
Settled(c) == ev.calls[c].st \in {"resolved", "rejected"}
Outstanding(c) == ev.calls[c].st = "registered"

\* a continuation that does not wait for the promise of the call it issued
PotAwaitUnawaited(c) == ev.calls[c].st # "idle"

\* await evaluator.evaluate(...): getPot continues once the promise of call c
\* has settled
PotAwait(c) == Settled(c)

PotCall(p) == CASE p = "evalScript" -> 1 [] p = "evalFn1" -> 2 [] p = "evalFn2" -> 3 [] OTHER -> 0

MicrotaskPending ==
  \/ ev.ready /\ \E c \in Calls : ev.calls[c].st = "waiting"
  \/ client = "getPot" /\ run.pc = "awaitLoad" /\ ev.ready
  \/ client = "getPot" /\ PotCall(run.pc) # 0 /\ PotAwait(PotCall(run.pc))
  \/ client = "evaluateOnce" /\ run.pc = "onceEval" /\ Settled(1)

(***************************************************************************)
(* Initial state                                                           *)
(***************************************************************************)
NoChallenge == [defined |-> FALSE, hasScript |-> FALSE, script |-> <<>>]
NoResponse2 == [fails |-> FALSE, ok |-> FALSE, tokenData |-> <<>>]
NoResult == [pot |-> "null", vd |-> "none", requestToken |-> "none",
             ttl |-> "null", refresh |-> "null"]

Init ==
  /\ ev = NoEvaluator
  /\ mailbox = <<>>
  /\ client \in {"direct", "getPot", "evaluateOnce", "codec"}
  /\ debug \in BOOLEAN
  /\ frameHangs \in BOOLEAN
  /\ (client \in {"direct", "codec"} => (~debug /\ ~frameHangs))
  /\ codec \in (IF client = "codec" THEN CodecInputs ELSE {NoCodec})
  /\ run = [pc |-> "start", status |-> "pending", error |-> "none",
            result |-> NoResult, requestToken |-> "none", vd |-> "none",
            pot |-> "null", ttl |-> "null", refresh |-> "null",
            steps |-> <<>>, fetches |-> <<>>, closedAtSettle |-> FALSE,
            raised |-> "none", timeoutDuration |-> 0,
            challengeBack |-> FALSE, challenge |-> NoChallenge,
            exchangeBack |-> FALSE, response2 |-> NoResponse2]
  /\ budget = [ops |-> 0, extra |-> 0, closes |-> 0, fired |-> 0, unasked |-> 0]

(***************************************************************************)
(* Environment: the frame, the timers, the sandbox, the message queue      *)
(***************************************************************************)
\* the frame's load event: resolve() of readyPromise, then emit('ready')
FrameLoad ==
  /\ ev.runnerFrame = "attached"
  /\ ~frameHangs
  /\ ev.ready => budget.extra < MaxExtra
  /\ ~MicrotaskPending
  /\ ev' = emit([ev EXCEPT !.ready = TRUE], "ready", NoArg)
  /\ budget' = IF ev.ready THEN [budget EXCEPT !.extra = @ + 1] ELSE budget
  /\ UNCHANGED <<mailbox, client, codec, debug, frameHangs, run>>

\* the callback armed by setTimeout: () => this.close()
TimerFire ==
  /\ ~MicrotaskPending
  /\ \E t \in ev.timers :
       ev' = close([ev EXCEPT !.timers = @ \ {t}])
  /\ budget' = [budget EXCEPT !.fired = @ + 1]
  /\ UNCHANGED <<mailbox, client, codec, debug, frameHangs, run>>

\* the message the sandbox posts back for request c: its result or its error
Reply(c, type) ==
  [source |-> "sandbox", type |-> type, re |-> c,
   value |-> IF type = "sandboxResult" THEN ResultOf[c] ELSE ErrorOf[c]]

\* the lengths the base64url text o of fn2 can have
TokenLengths == {40, 76, 80, 84, 108}
TooSmall == "PT too small"

\* fn2 without its length check
fn2NoFloor(length) == Reply(3, "sandboxResult")

\* the end of fn2, o having `length` characters:
\* if (o.length > 80) return o; throw new Error("PT too small")
fn2(length) ==
  IF length > PotFloor THEN Reply(3, "sandboxResult")
  ELSE [Reply(3, "sandboxError") EXCEPT !.value = TooSmall]

\* what the document in the frame can answer to request c, and the length of
\* o when the request is getPot's fn2 and got as far as its length check
Answers(c) ==
  IF client = "getPot" /\ c = 3
  THEN {[m |-> fn2(n), length |-> n] : n \in TokenLengths}
       \cup {[m |-> Reply(3, "sandboxError"), length |-> 0]}
  ELSE {[m |-> Reply(c, type), length |-> 0] : type \in {"sandboxResult", "sandboxError"}}

\* the document in the frame answers the oldest request it holds
SandboxReply ==
  /\ ev.runnerFrame = "attached"
  /\ ev.inbox # <<>>
  /\ \E a \in Answers(Head(ev.inbox)) :
       /\ mailbox' = Append(mailbox, a.m)
       /\ ev' = [ev EXCEPT !.inbox = Tail(@), !.tokenLength = a.length]
  /\ UNCHANGED <<client, codec, debug, frameHangs, run, budget>>

\* a message nobody asked for: from the frame itself, from another window,
\* or an event without a source window (source "null")
ExtraMessage ==
  /\ budget.extra < MaxExtra
  /\ ev.runnerFrame # "none"
  /\ \E m \in [source : {"sandbox", "other", "null"},
               type : {"sandboxResult", "sandboxError"}, value : {"x"}, re : {0}] :
       /\ m.source = "sandbox" => ev.runnerFrame = "attached"
       /\ m.source # "sandbox" => m.type = "sandboxResult"
       /\ mailbox' = Append(mailbox, m)
       /\ budget' = [budget EXCEPT !.extra = @ + 1,
                                   !.unasked = IF m.source = "sandbox" THEN @ + 1 ELSE @]
  /\ UNCHANGED <<ev, client, codec, debug, frameHangs, run>>

\* the window dispatches the next message event to the registered listener
MessageDeliver ==
  /\ mailbox # <<>>
  /\ ~MicrotaskPending
  /\ ev' = IF ev.windowListener THEN listener(ev, Head(mailbox)) ELSE ev
  /\ mailbox' = Tail(mailbox)
  /\ UNCHANGED <<client, codec, debug, frameHangs, run, budget>>

\* evaluate() resumes after its await of readyPromise
EvaluateResume ==
  /\ ev.ready
  /\ \E c \in Calls :
       /\ ev.calls[c].st = "waiting"
       /\ \A d \in Calls : d < c => ev.calls[d].st # "waiting"
       /\ ev' = evaluateResume(ev, c)
  /\ UNCHANGED <<mailbox, client, codec, debug, frameHangs, run, budget>>

(***************************************************************************)
(* A client that uses the evaluator's public methods directly              *)
(***************************************************************************)
DirectConstruct ==
  /\ client = "direct"
  /\ run.pc = "start"
  /\ \E o \in RunnerOrigins :
       LET new == Constructor(ev, o)
       IN IF new.threw
          THEN /\ run' = [run EXCEPT !.pc = "threw", !.status = "rejected",
                                     !.error = "same origin"]
               /\ ev' = new.ev
          ELSE /\ run' = [run EXCEPT !.pc = "using"]
               /\ ev' = new.ev
  /\ UNCHANGED <<mailbox, client, codec, debug, frameHangs, budget>>

DirectEvaluate ==
  /\ client = "direct"
  /\ run.pc = "using"
  /\ budget.ops < MaxOps
  /\ \E c \in Calls :
       /\ ev.calls[c].st = "idle"
       /\ \A d \in Calls : d < c => ev.calls[d].st # "idle"
       /\ ev' = evaluateCall(ev, c)
  /\ budget' = [budget EXCEPT !.ops = @ + 1]
  /\ UNCHANGED <<mailbox, client, codec, debug, frameHangs, run>>

DirectClose ==
  /\ client = "direct"
  /\ run.pc = "using"
  /\ budget.ops < MaxOps
  /\ ev' = close(ev)
  /\ budget' = [budget EXCEPT !.ops = @ + 1, !.closes = @ + 1]
  /\ UNCHANGED <<mailbox, client, codec, debug, frameHangs, run>>

DirectSetTimeout ==
  /\ client = "direct"
  /\ run.pc = "using"
  /\ budget.ops < MaxOps
  /\ \E d \in Durations :
       ev' = setTimeout(ev, d)
  /\ budget' = [budget EXCEPT !.ops = @ + 1]
  /\ UNCHANGED <<mailbox, client, codec, debug, frameHangs, run>>

DirectOn ==
  /\ client = "direct"
  /\ run.pc = "using"
  /\ budget.ops < MaxOps
  /\ \E x \in {"result", "close"}, u \in Users :
       ev' = on(ev, x, UserListener(u))
  /\ budget' = [budget EXCEPT !.ops = @ + 1]
  /\ UNCHANGED <<mailbox, client, codec, debug, frameHangs, run>>

DirectOff ==
  /\ client = "direct"
  /\ run.pc = "using"
  /\ budget.ops < MaxOps
  /\ \E x \in {"result", "close"}, u \in Users :
       ev' = off(ev, x, UserListener(u))
  /\ budget' = [budget EXCEPT !.ops = @ + 1]
  /\ UNCHANGED <<mailbox, client, codec, debug, frameHangs, run>>

(***************************************************************************)
(* SandboxedEvaluator.evaluateOnce                                         *)
(***************************************************************************)
\* if (timeoutDuration) evaluator.setTimeout(timeoutDuration)
OnceSetTimeout(e, timeoutDuration) ==
  IF timeoutDuration # 0 THEN setTimeout(e, timeoutDuration) ELSE e

\* a catch block that rethrows without closing
OnceCatchCloseNever(e) == e

\* the catch block: evaluator.close(); throw err
OnceCatchClose(e) == close(e)

\* the try block after the await: evaluator.close(); return result
OnceSuccessClose(e) == close(e)

\* new SandboxedEvaluator, setTimeout, evaluate() up to its await
OnceBegin ==
  /\ client = "evaluateOnce"
  /\ run.pc = "start"
  /\ \E o \in RunnerOrigins, d \in Durations :
       LET new == Constructor(ev, o)
       IN IF new.threw
          THEN /\ run' = [run EXCEPT !.pc = "done", !.status = "rejected",
                                     !.error = "same origin"]
               /\ ev' = new.ev
          ELSE /\ run' = [run EXCEPT !.pc = "onceEval", !.timeoutDuration = d]
               /\ ev' = evaluateCall(OnceSetTimeout(new.ev, d), 1)
  /\ UNCHANGED <<mailbox, client, codec, debug, frameHangs, budget>>

\* evaluate() settled: close, then return the result or rethrow the error
OnceSettled ==
  /\ client = "evaluateOnce"
  /\ run.pc = "onceEval"
  /\ Settled(1)
  /\ IF ev.calls[1].st = "rejected"
     THEN /\ ev' = OnceCatchClose(ev)
          /\ run' = [run EXCEPT !.pc = "done", !.status = "rejected",
                                !.raised = ev.calls[1].out,
                                !.error = ev.calls[1].out,
                                !.closedAtSettle = Closed(OnceCatchClose(ev))]
     ELSE /\ ev' = OnceSuccessClose(ev)
          /\ run' = [run EXCEPT !.pc = "done", !.status = "resolved",
                                !.pot = ev.calls[1].out,
                                !.closedAtSettle = Closed(OnceSuccessClose(ev))]
  /\ UNCHANGED <<mailbox, client, codec, debug, frameHangs, budget>>

(***************************************************************************)
(* BGUtils.createChallenge and the checks getPot makes on its result       *)
(***************************************************************************)
\* what the challenge endpoint can answer: the fetcher fails, or it returns a
\* response whose body is a JSON array of `length` elements; `second` is its
\* element 1 ("" when falsy), `str` what b64ToBuf makes of it, `hasScript`
\* and `script` the script list of the 6-tuple parsed from str
ScriptLists == {<<>>, <<"null">>, <<"null", "null">>, <<"">>,
                <<"code">>, <<"null", "code">>}
ChallengeResponses ==
  [fails : {TRUE}, ok : {FALSE}, length : {0}, second : {""}, str : {""},
   hasScript : {FALSE}, script : {<<>>}]
  \cup [fails : {FALSE}, ok : {FALSE}, length : {0}, second : {""}, str : {""},
        hasScript : {FALSE}, script : {<<>>}]
  \cup [fails : {FALSE}, ok : {TRUE}, length : 0..1, second : {""}, str : {""},
        hasScript : {FALSE}, script : {<<>>}]
  \cup [fails : {FALSE}, ok : {TRUE}, length : {2}, second : {"", "blob"}, str : {""},
        hasScript : {FALSE}, script : {<<>>}]
  \cup [fails : {FALSE}, ok : {TRUE}, length : {2}, second : {"blob"}, str : {"json"},
        hasScript : {FALSE}, script : {<<>>}]
  \cup [fails : {FALSE}, ok : {TRUE}, length : {2}, second : {"blob"}, str : {"json"},
        hasScript : {TRUE}, script : ScriptLists]

\* parseChallenge: the descriptor, or undefined when the decoded string is empty
parseChallenge(resp) ==
  IF resp.str # ""
  THEN [defined |-> TRUE, hasScript |-> resp.hasScript, script |-> resp.script]
  ELSE NoChallenge

\* createChallenge: an error, a descriptor, or undefined
createChallenge(resp) ==
  IF resp.fails THEN [error |-> "fetch rejected", challenge |-> NoChallenge]
  ELSE IF ~resp.ok THEN [error |-> "Failed to fetch", challenge |-> NoChallenge]
  ELSE IF resp.length > 1 /\ resp.second # ""
       THEN [error |-> "none", challenge |-> parseChallenge(resp)]
       ELSE [error |-> "none", challenge |-> NoChallenge]

\* challenge.script.find((sc) => sc !== null): the first non-null entry
RECURSIVE find(_)
find(script) ==
  IF script = <<>> THEN "undefined"
  ELSE IF Head(script) # "null" THEN Head(script)
  ELSE find(Tail(script))

\* the checks without the one on the entry find() returns
ChallengeErrorNoNullCheck(c) ==
  IF c.error # "none" THEN c.error
  ELSE IF ~c.challenge.defined THEN "C is incorrect"
  ELSE IF ~c.challenge.hasScript THEN "CS is bad"
  ELSE "none"

\* getPot's checks on the challenge: the error it throws, or "none"
ChallengeError(c) ==
  IF c.error # "none" THEN c.error
  ELSE IF ~c.challenge.defined THEN "C is incorrect"
  ELSE IF ~c.challenge.hasScript THEN "CS is bad"
  ELSE IF find(c.challenge.script) \in {"undefined", ""} THEN "CS is null"
  ELSE "none"

\* what the token-exchange endpoint can answer
TokenDatas == {<<>>, <<"">>, <<"", "3600", "false">>, <<"it">>,
               <<"it", "3600", "false">>, <<"it", "60", "true">>}
ExchangeResponses ==
  [fails : {TRUE}, ok : {FALSE}, tokenData : {<<>>}]
  \cup [fails : {FALSE}, ok : {FALSE}, tokenData : {<<>>, <<"it", "3600", "false">>}]
  \cup [fails : {FALSE}, ok : {TRUE}, tokenData : TokenDatas]

\* tokenData[i] of a JavaScript array (0-based): undefined past its end
At(tokenData, i) == IF i + 1 <= Len(tokenData) THEN tokenData[i + 1] ELSE "undefined"

\* the checks without the one on tokenData
ExchangeErrorNoEmptyCheck(resp) ==
  IF resp.fails THEN "fetch rejected"
  ELSE IF ~resp.ok THEN "It failed"
  ELSE "none"

\* getPot's checks on the exchange response: the error it throws, or "none"
ExchangeError(resp) ==
  IF resp.fails THEN "fetch rejected"
  ELSE IF ~resp.ok THEN "It failed"
  ELSE IF Len(resp.tokenData) = 0 \/ At(resp.tokenData, 0) = "" THEN "It none"
  ELSE "none"

(***************************************************************************)
(* BGUtils.getPot                                                          *)
(***************************************************************************)
DefaultRequestToken == "defaultRequestToken"
GeneratedVd == "generatedVd"

\* the bodies getPot and createChallenge post to the two endpoints
ChallengeRequest(requestToken) ==
  [to |-> "challenge", requestToken |-> requestToken, response |-> "none"]
ExchangeRequest(requestToken, response) ==
  [to |-> "exchange", requestToken |-> requestToken, response |-> response]

\* getPot without its two calls of setTimeout(null)
PotSetTimeoutNeverDisarms(e, d) == IF debug \/ d = 0 THEN e ELSE setTimeout(e, d)

\* if (!debug) evaluator.setTimeout(d)
PotSetTimeout(e, d) == IF debug THEN e ELSE setTimeout(e, d)

\* a catch block that rethrows without closing
PotCatchCloseNever(e) == e

\* the catch block: if (!debug) evaluator.close(); throw err
PotCatchClose(e) == IF debug THEN e ELSE close(e)

\* the success path: if (!debug) evaluator.close()
PotSuccessClose(e) == IF debug THEN e ELSE close(e)

\* the error the catch block rethrows
PotRethrow(err) == err

\* a return value with ttl and refresh taken from each other's slot
PotReturnSwapped(r, pot) ==
  [pot |-> pot, vd |-> r.vd, requestToken |-> r.requestToken,
   ttl |-> r.refresh, refresh |-> r.ttl]

\* the value getPot returns
PotReturn(r, pot) ==
  [pot |-> pot, vd |-> r.vd, requestToken |-> r.requestToken,
   ttl |-> r.ttl, refresh |-> r.refresh]

\* getPot rejects with err out of its try block
PotFail(r, err) ==
  /\ ev' = PotCatchClose(ev)
  /\ run' = [r EXCEPT !.pc = "done", !.status = "rejected",
                      !.raised = err,
                      !.error = PotRethrow(err),
                      !.closedAtSettle = Closed(PotCatchClose(ev))]

\* defaults, new SandboxedEvaluator, setTimeout(5000), await load()
PotBegin ==
  /\ client = "getPot"
  /\ run.pc = "start"
  /\ \E o \in RunnerOrigins, rt \in {"", "rt"}, vd \in {"", "vd"} :
       LET r == [run EXCEPT !.requestToken = IF rt = "" THEN DefaultRequestToken ELSE rt,
                            !.vd = IF vd = "" THEN GeneratedVd ELSE vd]
           new == Constructor(ev, o)
       IN IF new.threw
          THEN /\ run' = [r EXCEPT !.pc = "done", !.status = "rejected",
                                   !.error = "same origin"]
               /\ ev' = new.ev
          ELSE /\ run' = [r EXCEPT !.pc = "awaitLoad"]
               /\ ev' = PotSetTimeout(new.ev, PotTimeout)
  /\ UNCHANGED <<mailbox, client, codec, debug, frameHangs, budget>>

\* load() resolved: setTimeout(null), createChallenge issues its fetch
PotLoaded ==
  /\ client = "getPot"
  /\ run.pc = "awaitLoad"
  /\ ev.ready
  /\ ev' = PotSetTimeout(ev, 0)
  /\ run' = [run EXCEPT !.pc = "fetch1", !.steps = Append(@, "load"),
                        !.fetches = Append(@, ChallengeRequest(run.requestToken))]
  /\ UNCHANGED <<mailbox, client, codec, debug, frameHangs, budget>>

\* the challenge fetch returned: the checks, then the script is evaluated
PotChallengeReturn ==
  /\ client = "getPot"
  /\ run.pc = "fetch1"
  /\ \E resp \in ChallengeResponses :
       LET c == createChallenge(resp)
           err == ChallengeError(c)
           r == [run EXCEPT !.challengeBack = c.error = "none", !.challenge = c.challenge]
       IN IF err # "none"
          THEN PotFail(r, err)
          ELSE /\ ev' = evaluateCall(PotSetTimeout(ev, PotTimeout), 1)
               /\ run' = [r EXCEPT !.pc = "evalScript", !.steps = Append(@, "challenge")]
  /\ UNCHANGED <<mailbox, client, codec, debug, frameHangs, budget>>

\* evaluate(script) settled: fn1 is evaluated
PotScriptSettled ==
  /\ client = "getPot"
  /\ run.pc = "evalScript"
  /\ PotAwait(1)
  /\ IF ev.calls[1].st = "rejected"
     THEN PotFail(run, ev.calls[1].out)
     ELSE /\ ev' = evaluateCall(PotSetTimeout(ev, PotTimeout), 2)
          /\ run' = [run EXCEPT !.pc = "evalFn1", !.steps = Append(@, "script")]
  /\ UNCHANGED <<mailbox, client, codec, debug, frameHangs, budget>>

\* evaluate(fn1) settled: setTimeout(null), the exchange fetch is issued
PotFn1Settled ==
  /\ client = "getPot"
  /\ run.pc = "evalFn1"
  /\ PotAwait(2)
  /\ IF ev.calls[2].st = "rejected"
     THEN PotFail(run, ev.calls[2].out)
     ELSE /\ ev' = PotSetTimeout(ev, 0)
          /\ run' = [run EXCEPT !.pc = "fetch2", !.steps = Append(@, "fn1"),
                                !.fetches = Append(@, ExchangeRequest(run.requestToken,
                                                                      ev.calls[2].out))]
  /\ UNCHANGED <<mailbox, client, codec, debug, frameHangs, budget>>

\* the exchange fetch returned: the checks, then fn2 is evaluated
PotExchangeReturn ==
  /\ client = "getPot"
  /\ run.pc = "fetch2"
  /\ \E resp \in ExchangeResponses :
       LET err == ExchangeError(resp)
           r == [run EXCEPT !.exchangeBack = TRUE, !.response2 = resp]
       IN IF err # "none"
          THEN PotFail(r, err)
          ELSE /\ ev' = evaluateCall(PotSetTimeout(ev, PotTimeout), 3)
               /\ run' = [r EXCEPT !.pc = "evalFn2", !.steps = Append(@, "exchange"),
                                     !.ttl = At(resp.tokenData, 1),
                                     !.refresh = At(resp.tokenData, 2)]
  /\ UNCHANGED <<mailbox, client, codec, debug, frameHangs, budget>>

\* evaluate(fn2) settled: close, return the token
PotFn2Settled ==
  /\ client = "getPot"
  /\ run.pc = "evalFn2"
  /\ PotAwait(3)
  /\ IF ev.calls[3].st = "rejected"
     THEN PotFail(run, ev.calls[3].out)
     ELSE /\ ev' = PotSuccessClose(ev)
          /\ run' = [run EXCEPT !.pc = "done", !.status = "resolved",
                                !.steps = Append(@, "fn2"),
                                !.pot = ev.calls[3].out,
                                !.result = PotReturn(run, ev.calls[3].out),
                                !.closedAtSettle = Closed(PotSuccessClose(ev))]
  /\ UNCHANGED <<mailbox, client, codec, debug, frameHangs, budget>>

(***************************************************************************)
(* A caller of the base64 helpers: encode, then decode what was encoded    *)
(***************************************************************************)
CodecU8ToBase64 ==
  /\ client = "codec"
  /\ codec.fn = "u8ToBase64" /\ codec.pc = "start"
  /\ codec' = [codec EXCEPT !.text = u8ToBase64(codec.u8, codec.base64url),
                            !.pc = "encoded"]
  /\ UNCHANGED <<ev, mailbox, client, debug, frameHangs, run, budget>>

CodecBase64ToU8 ==
  /\ client = "codec"
  /\ codec.fn = "u8ToBase64" /\ codec.pc = "encoded"
  /\ codec' = [codec EXCEPT !.out = base64ToU8(codec.text), !.pc = "done"]
  /\ UNCHANGED <<ev, mailbox, client, debug, frameHangs, run, budget>>

CodecStringToB64 ==
  /\ client = "codec"
  /\ codec.fn = "stringToB64" /\ codec.pc = "start"
  /\ codec' = [codec EXCEPT !.text = stringToB64(codec.str), !.pc = "encoded"]
  /\ UNCHANGED <<ev, mailbox, client, debug, frameHangs, run, budget>>

CodecB64ToBuf ==
  /\ client = "codec"
  /\ codec.fn = "stringToB64" /\ codec.pc = "encoded"
  /\ codec' = [codec EXCEPT !.out = b64ToBuf(codec.text), !.pc = "done"]
  /\ UNCHANGED <<ev, mailbox, client, debug, frameHangs, run, budget>>

(***************************************************************************)
(* Specification                                                           *)
(***************************************************************************)
Next ==
  \/ FrameLoad
  \/ TimerFire
  \/ SandboxReply
  \/ ExtraMessage
  \/ MessageDeliver
  \/ EvaluateResume
  \/ DirectConstruct
  \/ DirectEvaluate
  \/ DirectClose
  \/ DirectSetTimeout
  \/ DirectOn
  \/ DirectOff
  \/ PotBegin
  \/ PotLoaded
  \/ PotChallengeReturn
  \/ PotScriptSettled
  \/ PotFn1Settled
  \/ PotExchangeReturn
  \/ PotFn2Settled
  \/ OnceBegin
  \/ OnceSettled
  \/ CodecU8ToBase64
  \/ CodecBase64ToU8
  \/ CodecStringToB64
  \/ CodecB64ToBuf

Spec == Init /\ [][Next]_vars

\* the platform runs an armed timer, a queued message and a runnable
\* continuation; the frame and the network answer or not as they please
FairSpec ==
  /\ Spec
  /\ WF_vars(TimerFire)
  /\ WF_vars(MessageDeliver)
  /\ WF_vars(EvaluateResume)
  /\ WF_vars(PotLoaded)
  /\ WF_vars(PotScriptSettled)
  /\ WF_vars(PotFn1Settled)
  /\ WF_vars(PotFn2Settled)
  /\ WF_vars(OnceSettled)

(***************************************************************************)
(* What a step did to the evaluator                                        *)
(***************************************************************************)
\* the step handed a message of this type to listener(), which accepted it
Delivered(type) ==
  /\ mailbox # <<>>
  /\ mailbox' = Tail(mailbox)
  /\ ev.windowListener
  /\ Head(mailbox).source = ContentWindow(ev)
  /\ Head(mailbox).type = type

\* the step ran close() as far as its emit('close')
CloseEmitted == ev'.emits["close"] = ev.emits["close"] + 1

\* the step is the timer callback
TimerFired == budget'.fired = budget.fired + 1

\* call c is outstanding and every other subscriber of event x is a listener
\* of the client that stays subscribed when invoked
Sole(c, x) ==
  /\ Outstanding(c)
  /\ \A i \in 1..Len(ev.listeners[x]) :
       LET l == ev.listeners[x][i]
       IN \/ l.kind # "user" /\ l.id = c
          \/ l.kind = "user" /\ ~UserOnce(l.id)

RejectedClosed == [st |-> "rejected", out |-> ClosedError]

(***************************************************************************)
(* C1                                                                      *)
(***************************************************************************)
C1_Step(c) ==
  /\ Settled(c) => ev'.calls[c] = ev.calls[c]
  /\ (Sole(c, "result") /\ Delivered("sandboxResult"))
       => ev'.calls[c] = [st |-> "resolved", out |-> Head(mailbox).value]
  /\ (Sole(c, "error") /\ Delivered("sandboxError"))
       => ev'.calls[c] = [st |-> "rejected", out |-> Head(mailbox).value]
  /\ (Sole(c, "close") /\ CloseEmitted)
       => ev'.calls[c] = RejectedClosed
  /\ (Outstanding(c) /\ ~Delivered("sandboxResult") /\ ~Delivered("sandboxError")
        /\ ~CloseEmitted)
       => ev'.calls[c] = ev.calls[c]

\* C1: the promise of a single outstanding evaluate call is settled by the
\* first of a result message (resolved with its value), an error message
\* (rejected with its error) and close() (rejected with the closed error), by
\* nothing else, and once settled no later event changes its outcome.
C1_SettledOnceByFirstEvent == [][\A c \in Calls : C1_Step(c)]_vars

\* call 1 was resolved by its result and the evaluator was closed afterwards
C1_Witness ==
  /\ ev.calls[1] = [st |-> "resolved", out |-> ResultOf[1]]
  /\ ev.emits["close"] >= 1

(***************************************************************************)
(* C2                                                                      *)
(***************************************************************************)
\* C2: when close() runs, every evaluate call outstanding at that moment is
\* rejected with the closed error, however many calls are outstanding and
\* whatever else is subscribed to the close event.
C2_CloseRejectsEveryOutstanding ==
  [][CloseEmitted => \A c \in Calls : Outstanding(c) => ev'.calls[c] = RejectedClosed]_vars

(***************************************************************************)
(* C3                                                                      *)
(***************************************************************************)
\* C3: on an evaluator that is already closed, a further close() emits no
\* close event and invokes no listener.
C3_SecondCloseDoesNothing ==
  [][Closed(ev) => (ev'.emits = ev.emits /\ ev'.invoked = ev.invoked)]_vars

(***************************************************************************)
(* C5                                                                      *)
(***************************************************************************)
\* C5: when the timer armed by setTimeout fires, the frame is removed, the
\* message listener is unregistered and an evaluate call still waiting for
\* the sandbox's reply is rejected with the closed error.
C5_TimerClosesAndRejects ==
  [][TimerFired =>
       /\ Closed(ev')
       /\ ~ev'.windowListener
       /\ \A c \in Calls : Sole(c, "close") => ev'.calls[c] = RejectedClosed]_vars

\* the timer closed the evaluator while request 1 was unanswered
C5_Witness ==
  /\ client = "direct"
  /\ budget.closes = 0
  /\ budget.fired = 1
  /\ ev.calls[1] = RejectedClosed
  /\ Closed(ev)
  /\ ~ev.windowListener
  /\ ev.inbox # <<>>
  /\ Head(ev.inbox) = 1

(***************************************************************************)
(* C4                                                                      *)
(***************************************************************************)
\* C4: with debug = false, a getPot that waits for a sandbox which never
\* finishes loading eventually rejects.
C4_LoadWaitIsBounded ==
  (client = "getPot" /\ ~debug /\ frameHangs /\ run.pc = "awaitLoad")
    ~> (run.status = "rejected")

(***************************************************************************)
(* C6                                                                      *)
(***************************************************************************)
\* getPot rejected out of its try block, that is after the evaluator was created
PotFailed == client = "getPot" /\ run.status = "rejected" /\ run.raised # "none"

C7_ClosedExactlyOnce ==
  (client = "getPot" /\ ~debug /\ run.status # "pending" /\ run.error # "same origin")
    => (Closed(ev) /\ ev.timers = {} /\ ev.emits["close"] = 1)

(***************************************************************************)
(* C8                                                                      *)
(***************************************************************************)
AllSteps == <<"load", "challenge", "script", "fn1", "exchange", "fn2">>
IsPrefix(s, t) == Len(s) <= Len(t) /\ SubSeq(t, 1, Len(s)) = s
Endpoints(fetches) == [i \in 1..Len(fetches) |-> fetches[i].to]

\* C8: getPot resolves only after load, challenge fetch, script, fn1,
\* exchange fetch and fn2 each succeeded once, in this order; a run that
\* settles otherwise rejects without a result; no step is repeated; and the
\* value resolved carries the fn2 result, elements 1 and 2 of the exchange
\* response, and the requestToken and vd the run used.
C8_ResolvesOnlyAfterAllSteps ==
  client = "getPot" =>
    /\ IsPrefix(run.steps, AllSteps)
    /\ IsPrefix(ev.posted, <<1, 2, 3>>)
    /\ IsPrefix(Endpoints(run.fetches), <<"challenge", "exchange">>)
    /\ \A i \in 1..Len(run.fetches) : run.fetches[i].requestToken = run.requestToken
    /\ run.status = "resolved" =>
         /\ run.steps = AllSteps
         /\ ev.posted = <<1, 2, 3>>
         /\ Len(run.fetches) = 2
         /\ \A c \in Calls : ev.calls[c].st = "resolved"
         /\ run.fetches[2].response = ev.calls[2].out
         /\ run.challengeBack /\ ChallengeError([error |-> "none", challenge |-> run.challenge]) = "none"
         /\ run.exchangeBack /\ run.response2.ok /\ At(run.response2.tokenData, 0) \notin {"", "undefined"}
         /\ run.result = [pot |-> ev.calls[3].out, vd |-> run.vd,
                          requestToken |-> run.requestToken,
                          ttl |-> At(run.response2.tokenData, 1),
                          refresh |-> At(run.response2.tokenData, 2)]
    /\ run.status = "rejected" => (run.steps # AllSteps /\ run.result = NoResult)
    /\ (run.pc = "done" /\ run.steps # AllSteps) => run.status = "rejected"

\* a run resolved with the token and the ttl and refresh of the response
C8_Witness ==
  /\ client = "getPot"
  /\ run.status = "resolved"
  /\ run.result.pot = ResultOf[3]
  /\ run.result.ttl = "60"
  /\ run.result.refresh = "true"
  /\ run.result.requestToken = DefaultRequestToken

(***************************************************************************)
(* C9                                                                      *)
(***************************************************************************)
NoUsableScript(ch) ==
  \/ ~ch.defined
  \/ ~ch.hasScript
  \/ \A i \in 1..Len(ch.script) : ch.script[i] = "null"

\* C9: when the challenge fetch yields no descriptor, a descriptor without a
\* script list or a script list of nulls only, getPot rejects, no evaluate
\* call is made, nothing is posted into the sandbox and the exchange
\* endpoint is not called.
C9_NoScriptNoEvaluation ==
  (client = "getPot" /\ run.challengeBack /\ NoUsableScript(run.challenge)) =>
    /\ run.status = "rejected"
    /\ \A c \in Calls : ev.calls[c].st = "idle"
    /\ ev.posted = <<>>
    /\ Endpoints(run.fetches) = <<"challenge">>

\* the descriptor carried a script list of two nulls
C9_Witness ==
  /\ client = "getPot"
  /\ run.challengeBack
  /\ run.challenge.hasScript
  /\ run.challenge.script = <<"null", "null">>
  /\ run.status = "rejected"

(***************************************************************************)
(* C10                                                                     *)
(***************************************************************************)
BadExchange(resp) ==
  \/ resp.fails
  \/ ~resp.ok
  \/ Len(resp.tokenData) = 0
  \/ At(resp.tokenData, 0) = ""

\* C10: when the exchange response is not successful, or its body is empty
\* or has a falsy first element, getPot rejects and fn2 is never evaluated.
C10_BadExchangeNoFn2 ==
  (client = "getPot" /\ run.exchangeBack /\ BadExchange(run.response2)) =>
    /\ run.status = "rejected"
    /\ ev.calls[3].st = "idle"
    /\ \A i \in 1..Len(ev.posted) : ev.posted[i] # 3

\* the exchange answered OK with an empty first element
C10_Witness ==
  /\ client = "getPot"
  /\ run.exchangeBack
  /\ run.response2.ok
  /\ run.response2.tokenData = <<"", "3600", "false">>
  /\ run.status = "rejected"

(***************************************************************************)
(* C11                                                                     *)
(***************************************************************************)
\* C11: the ready event is emitted at most once per evaluator, however often
\* the frame fires load, and no evaluation request is posted into the sandbox
\* before readyPromise has resolved.
C11_ReadyOnceAndPostAfterReady ==
  /\ ev.emits["ready"] <= 1
  /\ ev.posted # <<>> => ev.ready

(***************************************************************************)
(* C12                                                                     *)
(***************************************************************************)
\* C12: after any sequence of setTimeout calls at most one auto-close timer is
\* pending; after setTimeout(null) or setTimeout(0) none is pending; and the
\* timer callback never runs while the last setTimeout call was the
\* cancelling one.
C12_AtMostOneTimer ==
  /\ [](Cardinality(ev.timers) <= 1)
  /\ [](ev.lastDuration = 0 => ev.timers = {})
  /\ [][TimerFired => ev.lastDuration # 0]_vars

\* a client armed the timer twice and then cancelled it: nothing is pending,
\* nothing fired, the evaluator is open
C12_Witness ==
  /\ client = "direct"
  /\ ev.nextTimer = 3
  /\ ev.lastDuration = 0
  /\ ev.timers = {}
  /\ budget.fired = 0
  /\ ev.runnerFrame = "attached"

(***************************************************************************)
(* C13                                                                     *)
(***************************************************************************)
\* C13: a constructor call with a runner location of the host's own origin
\* throws and leaves the host as it was: no frame created or attached, no
\* message listener registered, no timer armed.
C13_SameOriginCreatesNothing ==
  run.error = "same origin" =>
    /\ run.status = "rejected"
    /\ ev = NoEvaluator
    /\ ev.runnerFrame = "none" /\ ~ev.windowListener /\ ev.timers = {}
    /\ mailbox = <<>>

\* getPot was called with a runner location of the host's origin
C13_Witness ==
  /\ client = "getPot"
  /\ run.error = "same origin"
  /\ run.pc = "done"

(***************************************************************************)
(* C14                                                                     *)
(***************************************************************************)
\* how often listener l is subscribed in a listener list
Count(seq, l) == Cardinality({i \in 1..Len(seq) : seq[i] = l})

\* every listener subscribed to event x when the step began ran exactly once:
\* a client's listener for each of its subscriptions, the handlers of an
\* outstanding evaluate call by settling the call
InvokedEachOnce(x) ==
  /\ \A u \in Users :
       ev'.invoked[u] = ev.invoked[u] + Count(ev.listeners[x], UserListener(u))
  /\ \A c \in Calls : \A i \in 1..Len(ev.listeners[x]) :
       (ev.listeners[x][i].kind # "user" /\ ev.listeners[x][i].id = c) => Settled(c)'

\* C14: emit invokes every listener subscribed to the event at the moment of
\* the call exactly once, whatever on/off calls came before and also when a
\* listener unsubscribes itself or another listener during the fan-out.
C14_EmitInvokesEverySubscriber ==
  [][/\ CloseEmitted => InvokedEachOnce("close")
     /\ Delivered("sandboxResult") => InvokedEachOnce("result")]_vars

(***************************************************************************)
(* C15                                                                     *)
(***************************************************************************)
\* C15: whenever evaluateOnce settles after it created its evaluator, with
\* the result or with an error, the evaluator has been closed; and when
\* evaluate() is called the timer is armed and nothing has been posted yet,
\* unless the duration passed is null or zero (then no timer is armed).
C15_OnceClosesBeforeSettling ==
  /\ []((client = "evaluateOnce" /\ run.status # "pending" /\ run.error # "same origin")
          => (Closed(ev) /\ ~ev.windowListener /\ run.closedAtSettle))
  /\ [][(client = "evaluateOnce" /\ run.pc = "start" /\ run'.pc = "onceEval") =>
          /\ ev'.calls[1].st = "waiting" /\ ev'.posted = <<>>
          /\ run'.timeoutDuration # 0 => Cardinality(ev'.timers) = 1
          /\ run'.timeoutDuration = 0 => ev'.timers = {}]_vars

\* evaluateOnce resolved with the sandbox's result, its timer armed and cleared
C15_Witness ==
  /\ client = "evaluateOnce"
  /\ run.status = "resolved"
  /\ run.pot = ResultOf[1]
  /\ run.timeoutDuration = PotTimeout
  /\ budget.fired = 0
  /\ Closed(ev)

(***************************************************************************)
(* C16                                                                     *)
(***************************************************************************)
\* C16: for every byte sequence b, the empty one included, base64ToU8 of
\* u8ToBase64(b, true) and of u8ToBase64(b, false) is b again.
C16_Base64RoundTrip ==
  (codec.fn = "u8ToBase64" /\ codec.pc = "done") =>
    codec.out = [threw |-> FALSE, value |-> codec.u8]

\* a URL-safe text with "-", "_" and padding was decoded back to its bytes
C16_Witness ==
  /\ codec.fn = "u8ToBase64" /\ codec.pc = "done"
  /\ codec.base64url
  /\ codec.u8 = <<251, 255>>
  /\ codec.text = <<"-", "_", "8", "=">>
  /\ codec.out.value = <<251, 255>>

(***************************************************************************)
(* C17                                                                     *)
(***************************************************************************)
\* C17: for every well-formed string s, b64ToBuf(stringToB64(s)) is s again
\* (the offsets of -97 and +97 cancel modulo 256), and b64ToBuf of the
\* encoding of an empty buffer is the empty string.
C17_OffsetRoundTrip ==
  (codec.fn = "stringToB64" /\ codec.pc = "done") =>
    codec.out = [threw |-> FALSE, value |-> codec.str]

(***************************************************************************)
(* C18                                                                     *)
(***************************************************************************)
\* the calls that are issued and not settled
Pending == {c \in Calls : ev.calls[c].st \in {"waiting", "registered"}}

\* C18: during a run of getPot at most one evaluate call is issued and not
\* settled; fn1 is issued only after the script's call has resolved and fn2
\* only after fn1's; and, the sandbox document posting nothing but one reply
\* per request, a reply the listener accepts settles the call that caused it.
C18_OneOutstandingEvaluation ==
  /\ [](client = "getPot" =>
          /\ Cardinality(Pending) <= 1
          /\ \A c \in {2, 3} : ev.calls[c].st # "idle" => ev.calls[c - 1].st = "resolved")
  /\ [][\A type \in {"sandboxResult", "sandboxError"} :
          (client = "getPot" /\ budget.unasked = 0 /\ Delivered(type)) =>
            LET m == Head(mailbox)
            IN /\ Pending = {m.re}
               /\ Outstanding(m.re)
               /\ ev'.calls[m.re] =
                    [st |-> IF type = "sandboxResult" THEN "resolved" ELSE "rejected",
                     out |-> m.value]]_vars

\* the three evaluations were resolved one after the other, each by its own
\* reply, in a run where the sandbox posted nothing else
C18_Witness ==
  /\ client = "getPot"
  /\ ev.calls[3] = [st |-> "resolved", out |-> ResultOf[3]]
  /\ ev.calls[2] = [st |-> "resolved", out |-> ResultOf[2]]
  /\ ev.posted = <<1, 2, 3>>
  /\ budget.unasked = 0

(***************************************************************************)
(* C19                                                                     *)
(***************************************************************************)
\* the step dispatched the message at the head of the queue
Dispatched == mailbox # <<>> /\ mailbox' = Tail(mailbox)

\* C19: a message whose source is not the evaluator's sandbox window, and any
\* message dispatched after close(), a sandbox reply still in flight
\* included, reaches no listener: no evaluate promise is settled by it, no
\* subscriber is invoked, the evaluator is left as it was.
C19_ForeignAndLateMessagesIgnored ==
  [][(Dispatched /\ (Head(mailbox).source # "sandbox" \/ Closed(ev))) =>
       /\ ev'.calls = ev.calls
       /\ ev'.invoked = ev.invoked
       /\ ev' = ev]_vars

\* the timer closed the evaluator of evaluateOnce while the sandbox's reply
\* was in flight; the reply was dispatched afterwards and dropped
C19_Witness ==
  /\ client = "evaluateOnce"
  /\ run.status = "rejected" /\ run.error = ClosedError
  /\ ev.posted = <<1>> /\ ev.inbox = <<>>
  /\ mailbox = <<>>
  /\ budget.extra = 0
  /\ budget.fired = 1

(***************************************************************************)
(* C20                                                                     *)
(***************************************************************************)
\* the step is the sandbox answering getPot's fn2 request
Fn2Answered ==
  /\ client = "getPot"
  /\ ev.inbox # <<>> /\ Head(ev.inbox) = 3
  /\ ev'.inbox = Tail(ev.inbox)
  /\ mailbox' # mailbox

\* C20: fn2 returns the token only if its length is at least 80 and fails
\* with the too-small error for every length below 80; a run whose fn2 text
\* is shorter than 80 never returns that token, and rejects unless another
\* message of the frame resolved the call first.
C20_ShortTokenRejected ==
  /\ [][Fn2Answered =>
          LET m == mailbox'[Len(mailbox')]
              length == ev'.tokenLength
          IN /\ (m.type = "sandboxResult" /\ length # 0) => length >= PotFloor
             /\ m.type = "sandboxResult" => (length # 0 /\ m.value = ResultOf[3])
             /\ (length # 0 /\ length < PotFloor) =>
                  (m.type = "sandboxError" /\ m.value = TooSmall)]_vars
  /\ []((client = "getPot" /\ ev.tokenLength # 0 /\ ev.tokenLength < PotFloor) =>
          /\ run.result.pot # ResultOf[3]
          /\ ev.calls[3].out # ResultOf[3]
          /\ (budget.unasked = 0 /\ run.pc = "done") => run.status = "rejected")

\* fn2 derived a text of 40 characters and getPot rejected with its error
C20_Witness ==
  /\ client = "getPot"
  /\ ev.tokenLength = 40
  /\ ev.calls[3] = [st |-> "rejected", out |-> TooSmall]
  /\ run.status = "rejected"
  /\ run.error = TooSmall

(***************************************************************************)
(* C21                                                                     *)
(***************************************************************************)
\* getPot waits for the answer of one of its two fetches
FetchInFlight == client = "getPot" /\ run.pc \in {"fetch1", "fetch2"}

\* C21: in getPot with debug = false no auto-close timer is pending while the
\* challenge fetch or the exchange fetch is in flight, so however late the
\* answer comes the timer callback does not run meanwhile and the sandbox is
\* still open when the answer arrives.
C21_NoTimerDuringFetch ==
  /\ []((FetchInFlight /\ ~debug) =>
          (ev.timers = {} /\ ev.runnerFrame = "attached" /\ budget.fired = 0))
  /\ [][(FetchInFlight /\ ~debug) => ~TimerFired]_vars

\* the exchange fetch is in flight after the timer was armed three times
\* (load, script, fn1) and disarmed
C21_Witness ==
  /\ FetchInFlight /\ ~debug
  /\ run.pc = "fetch2"
  /\ ev.nextTimer = 4
  /\ ev.lastDuration = 0
  /\ ev.timers = {}

(***************************************************************************)
(* C22                                                                     *)
(***************************************************************************)
\* C22: an evaluate call made on an evaluator that is already closed posts
\* nothing into the removed sandbox and eventually settles with a rejection.
C22_EvaluateAfterCloseRejects ==
  /\ [](\A c \in ev.issuedClosed : \A i \in 1..Len(ev.posted) : ev.posted[i] # c)
  /\ \A c \in Calls : (c \in ev.issuedClosed) ~> (ev.calls[c].st = "rejected")

====
